---- MODULE Spec2Model ----
(***************************************************************************)
(* Model of scripts/upload_pricing_research.py: the one-shot publisher     *)
(* that loads a pricing-research JSON tree, stamps it, and writes it as a  *)
(* fan-out of documents into a hierarchical document store.                *)
(*                                                                         *)
(* A document is a function from field names to values.  Leaf values are   *)
(* tagged pairs, so that a JSON string, a JSON number and a datetime       *)
(* object produced by datetime.utcnow() are never confused.                *)
(***************************************************************************)
EXTENDS Integers, Sequences, FiniteSets, TLC

VARIABLES
    file,           \* parsed content of the input JSON file on disk
    pc,             \* position of the run inside upload_pricing_research
    research_data,  \* the in-memory tree (local variable research_data)
    tiers,          \* local variable tiers: items of tier_structure, in order
    idx,            \* position of the for loop over tiers.items()
    store,          \* the document store: path -> document
    now,            \* the clock read by datetime.utcnow(); each read is later than the one before
    error,          \* the exception that ended the run, or "none"
    runs,           \* number of invocations of the script so far
    writes,         \* history: the successful set() calls of this run, in order
    before,         \* history: the store as it was when this run started
    history         \* history: one record per complete run

vars == <<file, pc, research_data, tiers, idx, store, now, error, runs,
          writes, before, history>>

---------------------------------------------------------------------------
(* Bounds of the model *)

MaxRuns == 2
MaxSources == 1

---------------------------------------------------------------------------
(* Values *)

Str(s) == <<"str", s>>
Num(n) == <<"int", n>>
Time(t) == <<"datetime", t>>

IsTime(v) == v[1] = "datetime"

Without(f, k) == [x \in DOMAIN f \ {k} |-> f[x]]

\* dict literal / unpacking {**a, **b}: later keys win
Merge(a, b) == [x \in DOMAIN a \cup DOMAIN b |-> IF x \in DOMAIN b THEN b[x] ELSE a[x]]

---------------------------------------------------------------------------
(* Literals of the program *)

UploadedBy == Str("claude-sonnet-4-5")
Version == Str("v1.0")
Status == Str("active")
LatestVersion == Str("v1_2026_01_05")
Description == Str("AI Music Studio pricing strategy and monetization research")
Subcollections == <<Str("research"), Str("tiers"), Str("competitors"),
                    Str("b2b_models"), Str("analytics")>>

IndexPath == <<"ai_music_studio", "pricing_strategy">>
MainPath == IndexPath \o <<"research", "v1_2026_01_05">>
\* faulty variant: every tier goes to one document id
TierPathShared(tier_name) == IndexPath \o <<"tiers", "tier">>
TierPath(tier_name) == IndexPath \o <<"tiers", tier_name>>
CompetitorsPath == IndexPath \o <<"competitors", "analysis_2026_01_05">>
ApiPricingPath == IndexPath \o <<"b2b_models", "api_pricing">>
WhiteLabelPath == IndexPath \o <<"b2b_models", "white_label">>
InsightsPath == IndexPath \o <<"analytics", "key_insights">>

---------------------------------------------------------------------------
(* The store: whole-document upsert, DocumentReference.set(data) *)

EmptyStore == [p \in {} |-> <<>>]

\* faulty variant: set(data, merge=True), fields of the old document survive
SetMerge(s, path, data) ==
    [q \in DOMAIN s \cup {path} |->
        IF q = path
        THEN (IF path \in DOMAIN s THEN Merge(s[path], data) ELSE data)
        ELSE s[q]]

Set(s, path, data) == [q \in DOMAIN s \cup {path} |-> IF q = path THEN data ELSE s[q]]

---------------------------------------------------------------------------
(* The documents the program builds *)

\* faulty variant: setdefault, a key already in the tree keeps its value
StampKeepExisting(tree, t) ==
    Merge([uploaded_at |-> Time(t), uploaded_by |-> UploadedBy,
           version |-> Version, status |-> Status], tree)

\* research_data[...] = ... : four item assignments on the tree
Stamp(tree, t) ==
    Merge(tree, [uploaded_at |-> Time(t), uploaded_by |-> UploadedBy,
                 version |-> Version, status |-> Status])

\* faulty variant: the items are visited last to first
ItemsReversed(mapping) ==
    [j \in DOMAIN mapping |-> mapping[Len(mapping) + 1 - j]]

\* tiers.items(): a dict iterates in insertion order; the mapping is kept as
\* the sequence of its <<key, value>> items in that order
Items(mapping) == mapping

Keys(mapping) == {mapping[j][1] : j \in DOMAIN mapping}

\* faulty variant: {'tier_id': ..., 'updated_at': ..., **tier_data}, the attributes win
TierDocAttrsWin(tier_name, tier_data, t) ==
    Merge([tier_id |-> Str(tier_name), updated_at |-> Time(t)], tier_data)

\* {**tier_data, 'tier_id': tier_name, 'updated_at': utcnow()}
TierDoc(tier_name, tier_data, t) ==
    Merge(tier_data, [tier_id |-> Str(tier_name), updated_at |-> Time(t)])

\* faulty variant: the timestamp is stored under another field name
CompetitorsDocRenamed(competitors, t) ==
    [competitors |-> competitors, last_modified |-> Time(t)]

\* {'competitors': competitors, 'updated_at': utcnow()}
CompetitorsDoc(competitors, t) ==
    [competitors |-> competitors, updated_at |-> Time(t)]

\* {**b2b_pricing, 'updated_at': utcnow()}
ApiPricingDoc(b2b_pricing, t) == Merge(b2b_pricing, [updated_at |-> Time(t)])

\* {**white_label, 'updated_at': utcnow()}
WhiteLabelDoc(white_label, t) == Merge(white_label, [updated_at |-> Time(t)])

\* faulty variant: the insights are written as they are
InsightsDocUnstamped(insights, t) == insights

\* {**insights, 'updated_at': utcnow()}
InsightsDoc(insights, t) == Merge(insights, [updated_at |-> Time(t)])

\* faulty variant: len(research_data), the number of top-level keys
TotalSourcesOfTree(tree) == Cardinality(DOMAIN tree)

\* len(research_data['sources'])
TotalSources(tree) == Len(tree["sources"])

IndexDoc(tree, t) ==
    [latest_version |-> LatestVersion,
     last_updated |-> Time(t),
     status |-> Status,
     subcollections |-> Subcollections,
     description |-> Description,
     total_sources |-> Num(TotalSources(tree))]

\* research_data['recommended_pricing_tiers'][k] raises KeyError unless both exist
HasNested(tree, k) ==
    /\ "recommended_pricing_tiers" \in DOMAIN tree
    /\ k \in DOMAIN tree["recommended_pricing_tiers"]

Nested(tree, k) == tree["recommended_pricing_tiers"][k]

---------------------------------------------------------------------------
(* Input files: the trees json.load can return that the model draws from *)

TierNames == {"free", "pro"}

\* the attributes of a tier in the file; those of "pro" carry keys of their
\* own named tier_id and updated_at
TierData(name) ==
    IF name = "free"
    THEN [price |-> Num(0)]
    ELSE [price |-> Num(10), tier_id |-> Str("legacy"),
          updated_at |-> Str("2025-12-01")]

\* every tier_structure over TierNames: distinct keys, any insertion order
TierStructures ==
    LET seqs == UNION {[1..n -> TierNames] : n \in 0..Cardinality(TierNames)}
        inj == {s \in seqs : \A a, b \in DOMAIN s : s[a] = s[b] => a = b}
    IN {[j \in DOMAIN s |-> <<s[j], TierData(s[j])>>] : s \in inj}

\* top-level keys of the file that collide with the metadata the program adds
ClashKeys ==
    [uploaded_at |-> Str("2025-12-01"), uploaded_by |-> Str("someone"),
     version |-> Str("v0.9"), status |-> Str("draft"),
     updated_at |-> Str("2025-12-01")]

WellFormed(ts, n, clash) ==
    LET stale == [updated_at |-> Str("2025-12-01")]
        plain(d) == IF clash THEN Merge(d, stale) ELSE d
        core == [recommended_pricing_tiers |->
                     [tier_structure |-> ts,
                      b2b_api_pricing |-> plain([rate |-> Num(1)]),
                      white_label_reseller |-> plain([fee |-> Num(500)])],
                 competitor_pricing |-> [a |-> Num(1)],
                 key_insights |-> plain([note |-> Str("x")]),
                 sources |-> [j \in 1..n |-> Str("s")]]
    IN IF clash THEN Merge(ClashKeys, core) ELSE core

WellFormedInputs ==
    {WellFormed(ts, n, clash) :
        ts \in TierStructures, n \in 0..MaxSources, clash \in BOOLEAN}

TopLevelKeys == {"recommended_pricing_tiers", "competitor_pricing",
                 "key_insights", "sources"}
NestedKeys == {"tier_structure", "b2b_api_pricing", "white_label_reseller"}

\* a tree with one of the keys the program reads missing
Missing(tree, k) ==
    IF k \in TopLevelKeys
    THEN Without(tree, k)
    ELSE [tree EXCEPT !["recommended_pricing_tiers"] = Without(@, k)]

MalformedInputs ==
    {Missing(WellFormed(ts, MaxSources, FALSE), k) :
        ts \in TierStructures, k \in TopLevelKeys \cup NestedKeys}

Inputs == WellFormedInputs \cup MalformedInputs

IsWellFormed(tree) ==
    /\ TopLevelKeys \subseteq DOMAIN tree
    /\ NestedKeys \subseteq DOMAIN tree["recommended_pricing_tiers"]

---------------------------------------------------------------------------
(* The run *)

NoTree == <<>>

Init ==
    /\ file \in Inputs
    /\ pc = "start"
    /\ research_data = NoTree
    /\ tiers = <<>>
    /\ idx = 1
    /\ store = EmptyStore
    /\ now = 0
    /\ error = "none"
    /\ runs = 1
    /\ writes = <<>>
    /\ before = EmptyStore
    /\ history = <<>>

\* faulty variant: the documents written so far are rolled back
RaiseWithRollback(e) ==
    /\ pc' = "aborted"
    /\ error' = e
    /\ store' = before
    /\ UNCHANGED <<file, research_data, tiers, idx, runs, writes, before, history>>

\* an uncaught exception ends the process
Raise(e) ==
    /\ pc' = "aborted"
    /\ error' = e
    /\ UNCHANGED <<file, research_data, tiers, idx, store, runs, writes,
                   before, history>>

\* ref.set(data) returned; the run goes on at next
Written(path, data, next) ==
    /\ store' = Set(store, path, data)
    /\ writes' = Append(writes, [path |-> path, data |-> data])
    /\ pc' = next
    /\ UNCHANGED <<file, research_data, error, runs, before>>

\* ref.set(data): the write lands, or the client raises and nothing is stored
SetDoc(path, data, next) ==
    \/ Written(path, data, next) /\ UNCHANGED <<tiers, idx, history>>
    \/ Raise("WriteError")

\* json.load(f)
Load ==
    /\ pc = "start"
    /\ research_data' = file
    /\ before' = store
    /\ pc' = "stamp"
    /\ UNCHANGED <<file, tiers, idx, store, now, error, runs, writes, history>>

\* research_data['uploaded_at'] = datetime.utcnow() and the three literals
StampTree ==
    /\ pc = "stamp"
    /\ research_data' = Stamp(research_data, now)
    /\ now' = now + 1
    /\ pc' = "main"
    /\ UNCHANGED <<file, tiers, idx, store, error, runs, writes, before, history>>

\* doc_ref.set(research_data)
WriteMain ==
    /\ pc = "main"
    /\ SetDoc(MainPath, research_data, "tiers")
    /\ UNCHANGED now

\* faulty variant: .get(..., {}), a missing tier_structure reads as no tiers
GetTiersDefault ==
    /\ pc = "tiers"
    /\ tiers' = IF HasNested(research_data, "tier_structure")
                THEN Items(Nested(research_data, "tier_structure"))
                ELSE <<>>
    /\ idx' = 1
    /\ pc' = IF Len(tiers') = 0 THEN "competitors" ELSE "tier"
    /\ UNCHANGED <<file, research_data, store, now, error, runs, writes,
                   before, history>>

\* tiers = research_data['recommended_pricing_tiers']['tier_structure']
GetTiers ==
    /\ pc = "tiers"
    /\ UNCHANGED now
    /\ IF HasNested(research_data, "tier_structure")
       THEN /\ tiers' = Items(Nested(research_data, "tier_structure"))
            /\ idx' = 1
            /\ pc' = IF Len(tiers') = 0 THEN "competitors" ELSE "tier"
            /\ UNCHANGED <<file, research_data, store, error, runs, writes,
                           before, history>>
       ELSE Raise("KeyError")

\* one iteration of the loop over tiers.items()
WriteTier ==
    /\ pc = "tier"
    /\ now' = now + 1
    /\ LET tier_name == tiers[idx][1]
           tier_data == tiers[idx][2]
           next == IF idx = Len(tiers) THEN "competitors" ELSE "tier"
       IN \/ /\ Written(TierPath(tier_name), TierDoc(tier_name, tier_data, now), next)
             /\ idx' = idx + 1
             /\ UNCHANGED <<tiers, history>>
          \/ Raise("WriteError")

\* competitors = research_data['competitor_pricing']; comp_ref.set(...)
WriteCompetitors ==
    /\ pc = "competitors"
    /\ IF "competitor_pricing" \in DOMAIN research_data
       THEN /\ now' = now + 1
            /\ SetDoc(CompetitorsPath,
                      CompetitorsDoc(research_data["competitor_pricing"], now), "b2b")
       ELSE Raise("KeyError") /\ UNCHANGED now

\* b2b_pricing = ...['b2b_api_pricing']; b2b_ref.set(...)
WriteApiPricing ==
    /\ pc = "b2b"
    /\ IF HasNested(research_data, "b2b_api_pricing")
       THEN /\ now' = now + 1
            /\ SetDoc(ApiPricingPath,
                      ApiPricingDoc(Nested(research_data, "b2b_api_pricing"), now),
                      "white_label")
       ELSE Raise("KeyError") /\ UNCHANGED now

\* white_label = ...['white_label_reseller']; wl_ref.set(...)
WriteWhiteLabel ==
    /\ pc = "white_label"
    /\ IF HasNested(research_data, "white_label_reseller")
       THEN /\ now' = now + 1
            /\ SetDoc(WhiteLabelPath,
                      WhiteLabelDoc(Nested(research_data, "white_label_reseller"), now),
                      "insights")
       ELSE Raise("KeyError") /\ UNCHANGED now

\* insights = research_data['key_insights']; insights_ref.set(...)
WriteInsights ==
    /\ pc = "insights"
    /\ IF "key_insights" \in DOMAIN research_data
       THEN /\ now' = now + 1
            /\ SetDoc(InsightsPath,
                      InsightsDoc(research_data["key_insights"], now), "index")
       ELSE Raise("KeyError") /\ UNCHANGED now

\* index_ref.set({...}); the dict is built, utcnow() before research_data['sources']
WriteIndex ==
    /\ pc = "index"
    /\ now' = now + 1
    /\ IF "sources" \in DOMAIN research_data
       THEN \/ /\ Written(IndexPath, IndexDoc(research_data, now), "done")
               /\ history' = Append(history,
                                [input |-> file,
                                 writes |-> writes',
                                 store |-> store'])
               /\ UNCHANGED <<tiers, idx>>
            \/ Raise("WriteError")
       ELSE Raise("KeyError")

\* the script is invoked again, after the file may have been edited
Rerun ==
    /\ pc = "done"
    /\ runs < MaxRuns
    /\ runs' = runs + 1
    /\ file' \in Inputs
    /\ pc' = "start"
    /\ research_data' = NoTree
    /\ tiers' = <<>>
    /\ idx' = 1
    /\ writes' = <<>>
    /\ UNCHANGED <<store, now, error, before, history>>

Next ==
    \/ Load
    \/ StampTree
    \/ WriteMain
    \/ GetTiers
    \/ WriteTier
    \/ WriteCompetitors
    \/ WriteApiPricing
    \/ WriteWhiteLabel
    \/ WriteInsights
    \/ WriteIndex
    \/ Rerun

Spec == Init /\ [][Next]_vars

---------------------------------------------------------------------------
(* Vocabulary of the properties *)

TierStructureOf(tree) == Nested(tree, "tier_structure")

\* the document paths a complete run on tree writes, in the order of the code
ExpectedPaths(tree) ==
    <<MainPath>>
    \o [j \in DOMAIN TierStructureOf(tree) |->
            IndexPath \o <<"tiers", TierStructureOf(tree)[j][1]>>]
    \o <<CompetitorsPath, ApiPricingPath, WhiteLabelPath, InsightsPath, IndexPath>>

WritePaths == [j \in DOMAIN writes |-> writes[j].path]

WrittenSet == {writes[j].path : j \in DOMAIN writes}

IsPrefix(s, t) == Len(s) <= Len(t) /\ \A j \in DOMAIN s : s[j] = t[j]

Strip(doc, fields) == [x \in DOMAIN doc \ fields |-> doc[x]]

\* the last clock value read by the previous complete run (-1 if there is none)
PrevEnd ==
    LET done == IF pc = "done" THEN Len(history) - 1 ELSE Len(history)
    IN IF done = 0 THEN -1
       ELSE history[done].store[IndexPath]["last_updated"][2]

\* v is a datetime read from the clock during the current run
Fresh(v) == IsTime(v) /\ v[2] > PrevEnd

\* the store is the same as before the run at path p
Untouched(p) ==
    /\ p \in DOMAIN store <=> p \in DOMAIN before
    /\ p \in DOMAIN store => store[p] = before[p]

---------------------------------------------------------------------------
(* C1: a complete run on a well-formed tree with T tiers issues exactly    *)
(* T + 6 writes, to T + 6 pairwise distinct paths: main, one per tier,     *)
(* competitors, api_pricing, white_label, key_insights and the index.      *)
C1_WriteCount ==
    pc = "done" =>
        LET ts == TierStructureOf(file)
            T == Len(ts)
        IN /\ IsWellFormed(file)
           /\ Len(writes) = T + 6
           /\ Cardinality(WrittenSet) = T + 6
           /\ \A a, b \in DOMAIN writes : writes[a].path = writes[b].path => a = b
           /\ WrittenSet = {MainPath, CompetitorsPath, ApiPricingPath,
                            WhiteLabelPath, InsightsPath, IndexPath}
                           \cup {IndexPath \o <<"tiers", k>> : k \in Keys(ts)}

C1_Witness ==
    pc = "done" /\ Len(TierStructureOf(file)) = 2 /\ runs = 2

(* C2: the writes of a run happen in one fixed order: main, the tiers in   *)
(* the insertion order of tier_structure, competitors, api_pricing,        *)
(* white_label, key_insights, index last; at every moment the writes done  *)
(* so far are a prefix of that order.                                      *)
C2_WriteOrder ==
    /\ HasNested(file, "tier_structure") =>
            IsPrefix(WritePaths, ExpectedPaths(file))
    /\ ~HasNested(file, "tier_structure") => IsPrefix(WritePaths, <<MainPath>>)
    /\ pc = "done" => WritePaths = ExpectedPaths(file)
    /\ IndexPath \in WrittenSet =>
            /\ pc = "done"
            /\ Len(writes) = Len(TierStructureOf(file)) + 6
            /\ writes[Len(writes)].path = IndexPath

C2_Witness ==
    /\ pc = "done"
    /\ Len(tiers) = 2
    /\ tiers[1][1] = "pro"
    /\ tiers[2][1] = "free"

(* C3 as stated: when tier_structure is absent the run aborts with a       *)
(* missing-key error before any write, so the store equals the store       *)
(* before the run.                                                         *)
C3_AbortBeforeAnyWrite ==
    (pc = "aborted" /\ error = "KeyError" /\ ~HasNested(file, "tier_structure"))
        => store = before

(* C3 amended: when tier_structure is absent the run never completes; it   *)
(* writes at most the main research document, and when it aborts with the  *)
(* missing-key error the main document is the only one that differs from   *)
(* the store before the run.                                               *)
C3_AbortAfterMainWrite ==
    ~HasNested(file, "tier_structure") =>
        /\ pc # "done"
        /\ IsPrefix(WritePaths, <<MainPath>>)
        /\ (pc = "aborted" /\ error = "KeyError") =>
                /\ WritePaths = <<MainPath>>
                /\ store[MainPath] = Stamp(file, store[MainPath]["uploaded_at"][2])
                /\ Fresh(store[MainPath]["uploaded_at"])
                /\ \A p \in (DOMAIN store \cup DOMAIN before) \ {MainPath} :
                        Untouched(p)

C3_Witness ==
    /\ pc = "aborted"
    /\ error = "KeyError"
    /\ ~HasNested(file, "tier_structure")
    /\ runs = 2
    /\ store # before

(* C4 as stated: after a complete run every document written except the   *)
(* index carries an updated_at datetime set by this run, and the main      *)
(* document carries uploaded_at, uploaded_by, version and status as well.  *)
C4_UpdatedAtOnAllButIndex ==
    pc = "done" =>
        /\ \A p \in WrittenSet \ {IndexPath} :
                /\ "updated_at" \in DOMAIN store[p]
                /\ Fresh(store[p]["updated_at"])
        /\ {"uploaded_at", "uploaded_by", "version", "status"}
                \subseteq DOMAIN store[MainPath]

(* C4 amended: after a complete run every document written except the      *)
(* index and the main research document carries an updated_at datetime     *)
(* set by this run; the main document carries uploaded_at set by this      *)
(* run, uploaded_by, version and status, and an updated_at field only if   *)
(* the input tree has one at top level, with the input's value.            *)
C4_UpdatedAtOnSecondaryDocs ==
    pc = "done" =>
        /\ \A p \in WrittenSet \ {IndexPath, MainPath} :
                /\ "updated_at" \in DOMAIN store[p]
                /\ Fresh(store[p]["updated_at"])
        /\ {"uploaded_at", "uploaded_by", "version", "status"}
                \subseteq DOMAIN store[MainPath]
        /\ Fresh(store[MainPath]["uploaded_at"])
        /\ "updated_at" \in DOMAIN store[MainPath] <=> "updated_at" \in DOMAIN file
        /\ "updated_at" \in DOMAIN file =>
                store[MainPath]["updated_at"] = file["updated_at"]
        /\ "updated_at" \notin DOMAIN store[IndexPath]

C4_Witness ==
    /\ pc = "done"
    /\ runs = 2
    /\ Len(tiers) = 2
    /\ "updated_at" \in DOMAIN Nested(file, "b2b_api_pricing")
    /\ "updated_at" \in DOMAIN store[MainPath]

\* the two latest complete runs read the same input
SameInputTwice ==
    /\ pc = "done"
    /\ Len(history) >= 2
    /\ history[Len(history)].input = history[Len(history) - 1].input

AfterPrevious == history[Len(history) - 1].store

(* C5 as stated: a second run on the identical input leaves every one of   *)
(* the T + 6 documents, index included, equal to what the first run left   *)
(* in every field other than updated_at and uploaded_at.                   *)
C5_RerunEqualButUpdatedUploaded ==
    SameInputTwice =>
        \A p \in WrittenSet :
            Strip(store[p], {"updated_at", "uploaded_at"})
                = Strip(AfterPrevious[p], {"updated_at", "uploaded_at"})

(* C5 amended: a second run on the identical input leaves every one of     *)
(* the T + 6 documents equal to what the first run left in every field     *)
(* other than updated_at, uploaded_at and the index's last_updated, with   *)
(* the same set of fields: nothing is appended or merged.                  *)
C5_RerunEqualButTimestamps ==
    SameInputTwice =>
        /\ WrittenSet = {w.path : w \in {history[Len(history) - 1].writes[j] :
                            j \in DOMAIN history[Len(history) - 1].writes}}
        /\ \A p \in WrittenSet :
            /\ DOMAIN store[p] = DOMAIN AfterPrevious[p]
            /\ Strip(store[p], {"updated_at", "uploaded_at", "last_updated"})
                = Strip(AfterPrevious[p], {"updated_at", "uploaded_at", "last_updated"})
        /\ \A p \in WrittenSet \ {IndexPath} :
            Strip(store[p], {"updated_at", "uploaded_at"})
                = Strip(AfterPrevious[p], {"updated_at", "uploaded_at"})

C5_Witness ==
    /\ SameInputTwice
    /\ Len(tiers) = 2
    /\ store[IndexPath]["last_updated"] # AfterPrevious[IndexPath]["last_updated"]

(* C6: once the main write has happened, the main document's uploaded_by   *)
(* and version are the program's literals, whatever the input tree holds   *)
(* under uploaded_by, version, status or uploaded_at.                      *)
C6_MainLiterals ==
    Len(writes) >= 1 =>
        /\ writes[1].path = MainPath
        /\ store[MainPath] = writes[1].data
        /\ store[MainPath]["uploaded_by"] = <<"str", "claude-sonnet-4-5">>
        /\ store[MainPath]["version"] = <<"str", "v1.0">>
        /\ store[MainPath]["status"] = <<"str", "active">>
        /\ IsTime(store[MainPath]["uploaded_at"])

C6_Witness ==
    /\ Len(writes) >= 1
    /\ "uploaded_by" \in DOMAIN file
    /\ file["uploaded_by"] # store[MainPath]["uploaded_by"]
    /\ file["version"] # store[MainPath]["version"]

(* C7: after a complete run the index's total_sources is the length of     *)
(* the sources array of the input tree as loaded; stamping and the writes  *)
(* leave the sources array of the in-memory tree unchanged.                *)
C7_TotalSources ==
    /\ (pc \notin {"start", "stamp"} /\ "sources" \in DOMAIN file) =>
            research_data["sources"] = file["sources"]
    /\ pc = "done" =>
            /\ store[IndexPath]["total_sources"] = <<"int", Len(file["sources"])>>
            /\ store[MainPath]["sources"] = file["sources"]

C7_Witness ==
    /\ pc = "done"
    /\ Len(file["sources"]) >= 1
    /\ "uploaded_by" \in DOMAIN file

(* C8: when a write fails or a key lookup fails the run stops at once:     *)
(* the k-1 documents written so far are the first k-1 targets of the       *)
(* fixed order and hold what this run wrote, every other document is as    *)
(* it was before the run, the index is not written, and nothing follows.   *)
C8_AbortLeavesPartialState ==
    pc = "aborted" =>
        /\ error \in {"KeyError", "WriteError"}
        /\ HasNested(file, "tier_structure") =>
                /\ Len(writes) < Len(ExpectedPaths(file))
                /\ IsPrefix(WritePaths, ExpectedPaths(file))
                /\ \A j \in DOMAIN ExpectedPaths(file) :
                        j > Len(writes) => Untouched(ExpectedPaths(file)[j])
        /\ \A j \in DOMAIN writes :
                /\ writes[j].path \in DOMAIN store
                /\ store[writes[j].path] = writes[j].data
        /\ \A p \in (DOMAIN store \cup DOMAIN before) \ WrittenSet : Untouched(p)
        /\ IndexPath \notin WrittenSet
        /\ ~ENABLED Next

C8_Witness ==
    /\ pc = "aborted"
    /\ error = "WriteError"
    /\ runs = 2
    /\ Len(writes) = 3
    /\ store # before

(* C9: after a complete run, for every key k of tier_structure exactly     *)
(* one write went to tiers/k; the document has tier_id = k, a fresh        *)
(* updated_at, and otherwise the attributes of tier k, the two tags        *)
(* winning over attributes of the same name; the in-memory tree's tier     *)
(* attributes are what was loaded.                                         *)
C9_TierDocs ==
    pc = "done" =>
        LET ts == TierStructureOf(file)
        IN /\ \A j \in DOMAIN ts :
                LET k == ts[j][1]
                    attrs == ts[j][2]
                    path == <<"ai_music_studio", "pricing_strategy", "tiers", k>>
                    d == store[path]
                IN /\ Cardinality({w \in DOMAIN writes : writes[w].path = path}) = 1
                   /\ DOMAIN d = DOMAIN attrs \cup {"tier_id", "updated_at"}
                   /\ d["tier_id"] = <<"str", k>>
                   /\ Fresh(d["updated_at"])
                   /\ \A f \in DOMAIN attrs \ {"tier_id", "updated_at"} :
                            d[f] = attrs[f]
           /\ TierStructureOf(research_data) = ts

C9_Witness ==
    /\ pc = "done"
    /\ \E j \in DOMAIN tiers :
            /\ "tier_id" \in DOMAIN tiers[j][2]
            /\ tiers[j][2]["tier_id"] # store[TierPath(tiers[j][1])]["tier_id"]

\* the tier keys of the complete runs so far
EverTierKeys ==
    UNION {Keys(TierStructureOf(history[j].input)) : j \in DOMAIN history}

\* the latest complete run whose input has tier k
LastRunWith(k) ==
    CHOOSE j \in DOMAIN history :
        /\ k \in Keys(TierStructureOf(history[j].input))
        /\ \A m \in DOMAIN history :
                k \in Keys(TierStructureOf(history[m].input)) => m <= j

WriteTo(log, path) == log[CHOOSE j \in DOMAIN log : log[j].path = path].data

(* C10: nothing is ever deleted: after complete runs with tier key sets    *)
(* S1..Sn on an initially empty store, the tiers sub-collection holds      *)
(* exactly the union of the Si, each tier document as the last run that    *)
(* had the tier wrote it, while the main and index documents are exactly   *)
(* what the latest run wrote.                                              *)
C10_NoDeletion ==
    pc = "done" =>
        LET n == Len(history)
        IN /\ {p \in DOMAIN store : Len(p) = 4 /\ p[3] = "tiers"}
                = {<<"ai_music_studio", "pricing_strategy", "tiers", k>> :
                        k \in EverTierKeys}
           /\ \A k \in EverTierKeys :
                store[<<"ai_music_studio", "pricing_strategy", "tiers", k>>]
                    = WriteTo(history[LastRunWith(k)].writes,
                              <<"ai_music_studio", "pricing_strategy", "tiers", k>>)
           /\ store[MainPath] = WriteTo(history[n].writes, MainPath)
           /\ DOMAIN store[MainPath]
                = DOMAIN file \cup {"uploaded_at", "uploaded_by", "version", "status"}
           /\ store[IndexPath] = WriteTo(history[n].writes, IndexPath)
           /\ \A j \in 1..(n - 1) : DOMAIN history[j].store \subseteq DOMAIN store

C10_Witness ==
    /\ pc = "done"
    /\ Len(history) = 2
    /\ Keys(TierStructureOf(history[1].input)) = {"free", "pro"}
    /\ Keys(TierStructureOf(history[2].input)) = {"free"}
    /\ "updated_at" \in DOMAIN history[1].input
    /\ "updated_at" \notin DOMAIN history[2].input
    /\ TierPath("pro") \in DOMAIN store

====
